---------------------------- MODULE Spec2Model ----------------------------
(***************************************************************************)
(* csv-to-json-api: the CSV tokenizer and record assembler (CSVParser),    *)
(* the dot-path builder and field separator (ObjectBuilder), the two       *)
(* persistence paths (UserService) and the POST /process pipeline.         *)
(*                                                                         *)
(* Text is a sequence of symbols.  A symbol is one character ("," "\""     *)
(* "." " " "\n" "\r", a digit) or a word of letters such as "John": the    *)
(* program never looks inside a run of letters, so a run is one symbol.    *)
(***************************************************************************)
EXTENDS Integers, Sequences, FiniteSets, TLC

VARIABLES
    fields,      \* SpecParse: the fields the line was joined from
    line,        \* SpecParse: the argument of parseLine
    scan,        \* SpecParse: parseLine's locals (i, values, currentValue, insideQuotes)
    parsed,      \* SpecParse: parseLine's return value once it has returned
    pcParse,     \* SpecParse: "scan" inside the for loop, "done" after the return
    csvText,     \* SpecCsv: the argument of parseCSVContent
    csvReturn,   \* SpecCsv: what parseCSVContent returned or threw
    pcCsv,       \* SpecCsv: "call" before parseCSVContent, "done" after
    flat,        \* SpecBuild: the flat record given to buildNestedObject
    result,      \* SpecBuild: buildNestedObject's result object so far
    entryNo,     \* SpecBuild: the entry of flat the for-of loop takes next
    user,        \* SpecBuild: what separateMandatoryFields returned
    pcBuild,     \* SpecBuild: "build", "separate" or "done"
    csvContent,     \* Spec: the content of the file at CSV_FILE_PATH
    rowsBefore,     \* Spec: the rows of the users table before the request
    pc,             \* Spec: where the POST /process handler stands
    totalRecords,   \* Spec: records.length
    processedUsers, \* Spec: the handler's processedUsers
    service,        \* Spec: the UserService call made: "row", "bulk" or "none"
    client,         \* Spec: the session of pool.connect(): "none", "held", "released"
    next,           \* Spec: the user the insert loop takes next (1-based)
    insertedCount,  \* Spec: batchInsertUsers' insertedCount
    failedCount,    \* Spec: batchInsertUsers' failedCount
    errors,         \* Spec: batchInsertUsers' errors
    totalInserted,  \* Spec: optimizedBatchInsert's totalInserted
    db,             \* Spec: the storage engine: the session's transaction and the rows
    log,            \* Spec: the statements issued and the inserts rejected, so far
    insertResult,   \* Spec: what the UserService call returned or threw
    response,       \* Spec: the response sent (status 0: none yet)
    users,          \* SpecReport: the argument of AgeDistribution.calculate
    distribution,   \* SpecReport: calculate's distribution (the counts so far)
    userNo,         \* SpecReport: the user forEach takes next (1-based)
    calcReturn,     \* SpecReport: what calculate returned
    pcCalc,         \* SpecReport: "call" inside calculate, "done" after the return
    calls,          \* SpecPool: the locals of each invocation of a UserService path
    pool            \* SpecPool: for each session of the pool, the invocation holding it (0: idle)

parseVars == <<fields, line, scan, parsed, pcParse>>
csvVars == <<csvText, csvReturn, pcCsv>>
buildVars == <<flat, result, entryNo, user, pcBuild>>
reportVars == <<users, distribution, userNo, calcReturn, pcCalc>>
poolVars == <<calls, pool>>

pipeVars == <<csvContent, rowsBefore, pc, totalRecords, processedUsers, service,
              client, next, insertedCount, failedCount, errors, totalInserted,
              db, log, insertResult, response>>

vars == <<fields, line, scan, parsed, pcParse, csvText, csvReturn, pcCsv,
          flat, result, entryNo, user, pcBuild,
          csvContent, rowsBefore, pc, totalRecords, processedUsers, service,
          client, next, insertedCount, failedCount, errors, totalInserted,
          db, log, insertResult, response,
          users, distribution, userNo, calcReturn, pcCalc,
          calls, pool>>

-----------------------------------------------------------------------------
(* Bounds of the tokenizer's inputs. *)
MaxFields == 3
MaxFieldLen == 1
(* Bound of the record assembler's inputs: the longest file content. *)
MaxCsvLen == 5
(* Bound of the builder's inputs: the most keys of an enumerated flat record. *)
MaxFlatKeys == 2
(* Bound of the pipeline's enumerated files: the most data rows of a small file. *)
MaxRows == 3
(* Bounds of the reporter's inputs: the most users of an enumerated sequence *)
(* and the largest age tried on its own.                                     *)
MaxUsers == 3
MaxAge == 62
(* Bounds of the concurrent invocations: how many there are, the sessions *)
(* the pool has, and the inserts (rows or chunks) of one invocation.       *)
MaxCalls == 2
MaxSessions == 1
MaxItems == 1

-----------------------------------------------------------------------------
(* Text helpers. *)

\* the value of line[i + 1] past the end of the string
Undefined == "undefined"

\* the characters String.prototype.trim removes
WhiteSpace == {" ", "\t", "\n", "\r"}

\* String.prototype.trim
Trim(s) ==
    LET keep == {k \in 1..Len(s) : s[k] \notin WhiteSpace}
    IN  IF keep = {} THEN <<>>
        ELSE SubSeq(s, CHOOSE k \in keep : \A m \in keep : k <= m,
                       CHOOSE k \in keep : \A m \in keep : m <= k)

\* all sequences over S of length at most n
RECURSIVE SeqsUpTo(_, _)
SeqsUpTo(S, n) ==
    IF n = 0 THEN {<<>>}
    ELSE LET shorter == SeqsUpTo(S, n - 1)
         IN  shorter \cup {Append(s, x) : s \in shorter, x \in S}

\* Array.prototype.join(',')
RECURSIVE JoinComma(_)
JoinComma(fs) ==
    IF Len(fs) = 0 THEN <<>>
    ELSE IF Len(fs) = 1 THEN fs[1]
    ELSE fs[1] \o <<",">> \o JoinComma(Tail(fs))

-----------------------------------------------------------------------------
(* CSVParser.parseLine *)

\* parseLine's locals before the first iteration (i is 1-based here)
ScanInit == [i |-> 1, values |-> <<>>, currentValue |-> <<>>, insideQuotes |-> FALSE]

\* ParseLineStep with the comma branch forgetting to reset the accumulator
ParseLineStepNoReset(ln, sc) ==
    LET char == ln[sc.i]
        nextChar == IF sc.i + 1 <= Len(ln) THEN ln[sc.i + 1] ELSE Undefined
    IN  IF char = "\""
        THEN IF sc.insideQuotes /\ nextChar = "\""
             THEN [sc EXCEPT !.currentValue = Append(@, "\""), !.i = @ + 2]
             ELSE [sc EXCEPT !.insideQuotes = ~@, !.i = @ + 1]
        ELSE IF char = "," /\ ~sc.insideQuotes
             THEN [sc EXCEPT !.values = Append(@, sc.currentValue), !.i = @ + 1]
             ELSE [sc EXCEPT !.currentValue = Append(@, char), !.i = @ + 1]

\* ParseLineStep without the escaped-quote branch: every quote toggles
ParseLineStepNoEscape(ln, sc) ==
    LET char == ln[sc.i]
    IN  IF char = "\""
        THEN [sc EXCEPT !.insideQuotes = ~@, !.i = @ + 1]
        ELSE IF char = "," /\ ~sc.insideQuotes
             THEN [sc EXCEPT !.values = Append(@, sc.currentValue),
                             !.currentValue = <<>>, !.i = @ + 1]
             ELSE [sc EXCEPT !.currentValue = Append(@, char), !.i = @ + 1]

\* one iteration of parseLine's for loop, including its i++
ParseLineStep(ln, sc) ==
    LET char == ln[sc.i]
        nextChar == IF sc.i + 1 <= Len(ln) THEN ln[sc.i + 1] ELSE Undefined
    IN  IF char = "\""
        THEN IF sc.insideQuotes /\ nextChar = "\""
             THEN [sc EXCEPT !.currentValue = Append(@, "\""), !.i = @ + 2]
             ELSE [sc EXCEPT !.insideQuotes = ~@, !.i = @ + 1]
        ELSE IF char = "," /\ ~sc.insideQuotes
             THEN [sc EXCEPT !.values = Append(@, sc.currentValue),
                             !.currentValue = <<>>, !.i = @ + 1]
             ELSE [sc EXCEPT !.currentValue = Append(@, char), !.i = @ + 1]

\* the for loop run to its end
RECURSIVE ScanToEnd(_, _)
ScanToEnd(ln, sc) ==
    IF sc.i <= Len(ln) THEN ScanToEnd(ln, ParseLineStep(ln, sc)) ELSE sc

\* the push after the loop and the return value
ScanResult(sc) == Append(sc.values, sc.currentValue)

parseLine(ln) == ScanResult(ScanToEnd(ln, ScanInit))

-----------------------------------------------------------------------------
(* JavaScript values.  A value is tagged: a string (v: its text), an object *)
(* (v: its entries in property order, keys unique), a number, null or        *)
(* undefined.                                                                *)

Null == [t |-> "null", v |-> <<>>]
Undef == [t |-> "undefined", v |-> <<>>]
Str(s) == [t |-> "str", v |-> s]
Obj(es) == [t |-> "obj", v |-> es]
EmptyObj == Obj(<<>>)

Digits == {"0", "1", "2", "3", "4", "5", "6", "7", "8", "9"}
DigitVal ==
    [d \in Digits |->
        CASE d = "0" -> 0 [] d = "1" -> 1 [] d = "2" -> 2 [] d = "3" -> 3
          [] d = "4" -> 4 [] d = "5" -> 5 [] d = "6" -> 6 [] d = "7" -> 7
          [] d = "8" -> 8 [] d = "9" -> 9]

\* the keys of an object's entries, in property order
Keys(es) == [k \in 1..Len(es) |-> es[k].k]
HasKey(es, key) == \E k \in 1..Len(es) : es[k].k = key

\* obj[key]: the property's value, undefined when the object has none
Get(es, key) ==
    IF HasKey(es, key) THEN es[CHOOSE k \in 1..Len(es) : es[k].k = key].v ELSE Undef

\* a property name that is an array index ("0", "7", "12"): such properties
\* are enumerated first, in ascending numeric order
IsIndexKey(key) ==
    /\ Len(key) >= 1
    /\ \A k \in 1..Len(key) : key[k] \in Digits
    /\ (Len(key) = 1 \/ key[1] # "0")
IndexLess(a, b) ==
    \/ Len(a) < Len(b)
    \/ /\ Len(a) = Len(b)
       /\ \E k \in 1..Len(a) :
            /\ \A m \in 1..(k - 1) : a[m] = b[m]
            /\ DigitVal[a[k]] < DigitVal[b[k]]

\* obj[key] = val: an existing property keeps its place; a new one goes
\* last, or among the array-index properties when its name is an index
Put(es, key, val) ==
    IF HasKey(es, key)
    THEN [k \in 1..Len(es) |-> IF es[k].k = key THEN [k |-> key, v |-> val] ELSE es[k]]
    ELSE IF IsIndexKey(key)
    THEN LET before == Cardinality({k \in 1..Len(es) :
                           IsIndexKey(es[k].k) /\ IndexLess(es[k].k, key)})
         IN  SubSeq(es, 1, before) \o <<[k |-> key, v |-> val]>>
                 \o SubSeq(es, before + 1, Len(es))
    ELSE Append(es, [k |-> key, v |-> val])

-----------------------------------------------------------------------------
(* CSVParser.splitIntoLines and CSVParser.parseCSVContent *)

\* content.split(/\r?\n|\r/) of the characters lo..hi: the pieces between
\* separators, the first and the last of them still open at the range's ends.
\* A "\r" right before a "\n" belongs to that "\n"'s separator.
RECURSIVE SplitRange(_, _, _)
SplitRange(content, lo, hi) ==
    IF lo > hi THEN << <<>> >>
    ELSE IF lo = hi
    THEN IF content[lo] = "\n" THEN << <<>>, <<>> >>
         ELSE IF content[lo] = "\r"
         THEN IF lo < Len(content) /\ content[lo + 1] = "\n"
              THEN << <<>> >>
              ELSE << <<>>, <<>> >>
         ELSE << <<content[lo]>> >>
    ELSE LET mid == (lo + hi) \div 2
             L == SplitRange(content, lo, mid)
             R == SplitRange(content, mid + 1, hi)
         IN  SubSeq(L, 1, Len(L) - 1) \o <<L[Len(L)] \o R[1]>> \o Tail(R)

splitIntoLines(content) == SplitRange(content, 1, Len(content))

\* record[headers[j].trim()] = values[j].trim() for j from `from` on
RECURSIVE ZipRecord(_, _, _, _)
ZipRecord(record, headers, values, from) ==
    IF from > Len(headers) THEN record
    ELSE ZipRecord(Put(record, Trim(headers[from]), Str(Trim(values[from]))),
                   headers, values, from + 1)

\* AssembleLine without the field-count check: short rows are padded by
\* undefined-as-empty values and long rows are cut
AssembleLineNoCountCheck(headers, rawLine) ==
    LET ln == Trim(rawLine)
        values == parseLine(ln)
        padded == [j \in 1..Len(headers) |-> IF j <= Len(values) THEN values[j] ELSE <<>>]
    IN  IF ln = <<>> THEN <<>>
        ELSE <<Obj(ZipRecord(<<>>, headers, padded, 1))>>

\* one iteration of parseCSVContent's loop over the data lines: the records
\* it pushes (none when the line is skipped)
AssembleLine(headers, rawLine) ==
    LET ln == Trim(rawLine)
        values == parseLine(ln)
    IN  IF ln = <<>> THEN <<>>
        ELSE IF Len(values) # Len(headers) THEN <<>>
        ELSE <<Obj(ZipRecord(<<>>, headers, values, 1))>>

\* the loop over lines[lo..hi], its pushes in line order (the iterations are
\* independent of each other, so the range is halved instead of walked)
RECURSIVE AssembleRange(_, _, _, _)
AssembleRange(headers, lines, lo, hi) ==
    IF lo > hi THEN <<>>
    ELSE IF lo = hi THEN AssembleLine(headers, lines[lo])
    ELSE LET mid == (lo + hi) \div 2
         IN  AssembleRange(headers, lines, lo, mid)
                 \o AssembleRange(headers, lines, mid + 1, hi)

\* what a call returns: threw, and then the error's message, or the value
Threw(msg) == [threw |-> TRUE, message |-> msg, value |-> <<>>]
Returned(val) == [threw |-> FALSE, message |-> "", value |-> val]
NotReturned == [threw |-> FALSE, message |-> "pending", value |-> <<>>]

parseCSVContent(content) ==
    LET lines == splitIntoLines(content)
    IN  IF Len(lines) = 0 THEN Threw("CSV file is empty")
        ELSE Returned(AssembleRange(parseLine(lines[1]), lines, 2, Len(lines)))

-----------------------------------------------------------------------------
(* ObjectBuilder *)

\* a JavaScript number: an integer n, NaN, or an integer above Int4Max
Num(n) == [t |-> "num", v |-> n]
NaN == [t |-> "nan", v |-> 0]
AboveInt4 == [t |-> "big", v |-> 0]

\* the largest value of the age column (age INT NOT NULL)
Int4Max == 2147483647

\* path.split('.')
RECURSIVE SplitDot(_)
SplitDot(path) ==
    IF \A k \in 1..Len(path) : path[k] # "." THEN <<path>>
    ELSE LET dot == CHOOSE k \in 1..Len(path) :
                        path[k] = "." /\ \A m \in 1..(k - 1) : path[m] # "."
         IN  <<SubSeq(path, 1, dot - 1)>> \o SplitDot(SubSeq(path, dot + 1, Len(path)))

\* setNestedProperty with the test reduced to !current[key]: a prefix that
\* holds a non-empty string stays, and the assignment on it has no effect
RECURSIVE SetNestedKeepsLeaf(_, _, _)
SetNestedKeepsLeaf(es, keys, value) ==
    IF Len(keys) = 1 THEN Put(es, keys[1], value)
    ELSE LET current == Get(es, keys[1])
         IN  IF current.t = "str" /\ current.v # <<>> THEN es
             ELSE LET child == IF current.t = "obj" THEN current.v ELSE <<>>
                  IN  Put(es, keys[1], Obj(SetNestedKeepsLeaf(child, Tail(keys), value)))

\* setNestedProperty on the entries of obj, for the split path
RECURSIVE SetNested(_, _, _)
SetNested(es, keys, value) ==
    IF Len(keys) = 1 THEN Put(es, keys[1], value)
    ELSE LET current == Get(es, keys[1])
             child == IF current.t = "obj" THEN current.v ELSE <<>>
         IN  Put(es, keys[1], Obj(SetNested(child, Tail(keys), value)))

setNestedProperty(es, path, value) == SetNested(es, SplitDot(path), value)

\* the for-of loop of buildNestedObject from entry `from` on
RECURSIVE BuildFrom(_, _, _)
BuildFrom(res, flatEntries, from) ==
    IF from > Len(flatEntries) THEN res
    ELSE BuildFrom(setNestedProperty(res, flatEntries[from].k, flatEntries[from].v),
                   flatEntries, from + 1)

buildNestedObject(flatObject) == Obj(BuildFrom(<<>>, flatObject.v, 1))

\* the decimal digits of a natural number
RECURSIVE DecimalText(_)
DecimalText(n) ==
    LET digit == CHOOSE d \in Digits : DigitVal[d] = n % 10
    IN  IF n < 10 THEN <<digit>> ELSE Append(DecimalText(n \div 10), digit)

\* String(value), as parseInt and a template literal apply it
ToText(value) ==
    CASE value.t = "str" -> value.v
      [] value.t = "num" -> IF value.v < 0 THEN <<"-">> \o DecimalText(0 - value.v)
                            ELSE DecimalText(value.v)
      [] value.t = "nan" -> <<"NaN">>
      [] value.t = "obj" -> <<"[object Object]">>
      [] value.t = "undefined" -> <<"undefined">>
      [] value.t = "null" -> <<"null">>

\* the decimal digits at the head of s, as a number
RECURSIVE DigitsValue(_, _, _)
DigitsValue(s, from, acc) ==
    IF from > Len(s) \/ s[from] \notin Digits THEN Num(acc)
    ELSE IF acc > (Int4Max - DigitVal[s[from]]) \div 10 THEN AboveInt4
    ELSE DigitsValue(s, from + 1, acc * 10 + DigitVal[s[from]])

\* parseInt(value): leading white space skipped, an optional sign, then the
\* longest run of decimal digits; NaN when there is none.  (No symbol of the
\* model's texts is a hexadecimal prefix.)
parseInt(value) ==
    LET s == ToText(value)
        body == {k \in 1..Len(s) : s[k] \notin WhiteSpace}
        start == IF body = {} THEN Len(s) + 1
                 ELSE CHOOSE k \in body : \A m \in body : k <= m
        signed == start <= Len(s) /\ s[start] \in {"-", "+"}
        first == IF signed THEN start + 1 ELSE start
        magnitude == DigitsValue(s, first, 0)
    IN  IF first > Len(s) \/ s[first] \notin Digits THEN NaN
        ELSE IF magnitude.t = "num" /\ signed /\ s[start] = "-" THEN Num(0 - magnitude.v)
        ELSE magnitude

\* value || fallback for the values met here: "", NaN, 0, null and undefined
\* are falsy
Falsy(value) ==
    \/ value.t \in {"undefined", "null", "nan"}
    \/ value.t = "str" /\ value.v = <<>>
    \/ value.t = "num" /\ value.v = 0
OrElse(value, fallback) == IF Falsy(value) THEN fallback ELSE value

\* value?.key: undefined unless value is an object that has the property
\* (a string has no property of the names used here)
OptionalGet(value, key) == IF value.t = "obj" THEN Get(value.v, key) ELSE Undef

\* the PersistableUser before any record has been separated
NoUser == [name |-> <<>>, age |-> NaN, address |-> Undef, additional_info |-> Undef]

\* the keys separateMandatoryFields keeps out of additional_info
MandatoryKeys == {<<"name">>, <<"age">>, <<"address">>}
IsAdditional(entry) == entry.k \notin MandatoryKeys

\* separateMandatoryFields taking the name from top-level firstName and
\* lastName properties instead of the name subtree
separateMandatoryFieldsTopLevelName(nestedObject) ==
    LET firstName == OrElse(Get(nestedObject.v, <<"firstName">>), Str(<<>>))
        lastName == OrElse(Get(nestedObject.v, <<"lastName">>), Str(<<>>))
        additionalInfo == SelectSeq(nestedObject.v, IsAdditional)
    IN  [name |-> Trim(ToText(firstName) \o <<" ">> \o ToText(lastName)),
         age |-> OrElse(parseInt(Get(nestedObject.v, <<"age">>)), Num(0)),
         address |-> OrElse(Get(nestedObject.v, <<"address">>), Null),
         additional_info |-> IF Len(additionalInfo) > 0 THEN Obj(additionalInfo) ELSE Null]

separateMandatoryFields(nestedObject) ==
    LET name == Get(nestedObject.v, <<"name">>)
        firstName == OrElse(OptionalGet(name, <<"firstName">>), Str(<<>>))
        lastName == OrElse(OptionalGet(name, <<"lastName">>), Str(<<>>))
        additionalInfo == SelectSeq(nestedObject.v, IsAdditional)
    IN  [name |-> Trim(ToText(firstName) \o <<" ">> \o ToText(lastName)),
         age |-> OrElse(parseInt(Get(nestedObject.v, <<"age">>)), Num(0)),
         address |-> OrElse(Get(nestedObject.v, <<"address">>), Null),
         additional_info |-> IF Len(additionalInfo) > 0 THEN Obj(additionalInfo) ELSE Null]

\* processRecords: records.map(build, then separate)
processRecords(records) ==
    [k \in 1..Len(records) |-> separateMandatoryFields(buildNestedObject(records[k]))]

-----------------------------------------------------------------------------
(* AgeDistribution *)

\* the age groups, in the order of the distribution object's properties
Groups == <<"<20", "20-40", "40-60", ">60">>
GroupSet == {Groups[k] : k \in 1..Len(Groups)}

\* { '<20': 0, '20-40': 0, '40-60': 0, '>60': 0 }
ZeroCounts == [g \in GroupSet |-> 0]

\* the if / else-if chain of calculate with the upper bound of 40-60 exclusive
GroupOfSixtyExclusive(age) ==
    IF age < 20 THEN "<20"
    ELSE IF age >= 20 /\ age < 40 THEN "20-40"
    ELSE IF age >= 40 /\ age < 60 THEN "40-60"
    ELSE ">60"

\* the if / else-if chain of calculate
GroupOf(age) ==
    IF age < 20 THEN "<20"
    ELSE IF age >= 20 /\ age < 40 THEN "20-40"
    ELSE IF age >= 40 /\ age <= 60 THEN "40-60"
    ELSE ">60"

\* one call of the forEach callback
CountUser(dist, u) ==
    LET age == parseInt(u.age)
    IN  IF age.t = "nan" THEN dist
        ELSE [dist EXCEPT ![GroupOf(age.v)] = @ + 1]

\* ((count / total) * 100).toFixed(2): the percentage rounded to hundredths
\* (half up), as text with two decimals
ToFixed2(count, total) ==
    LET hundredths == (2 * 10000 * count + total) \div (2 * total)
        cents == hundredths % 100
    IN  DecimalText(hundredths \div 100) \o <<".">>
            \o DecimalText(cents \div 10) \o DecimalText(cents % 10)

\* the percentages object
Percentages(dist, total) == [g \in GroupSet |-> ToFixed2(dist[g], total)]

\* users.forEach over users[from..]
RECURSIVE CountFrom(_, _, _)
CountFrom(dist, us, from) ==
    IF from > Len(us) THEN dist
    ELSE CountFrom(CountUser(dist, us[from]), us, from + 1)

\* AgeDistribution.calculate
calculate(us) ==
    IF Len(us) = 0 THEN ZeroCounts
    ELSE LET dist == CountFrom(ZeroCounts, us, 1)
         IN  [counts |-> dist, percentages |-> Percentages(dist, Len(us)),
              total |-> Len(us)]

\* calculate is not running on its own
ReportIdle ==
    /\ users = <<>> /\ distribution = ZeroCounts /\ userNo = 1
    /\ calcReturn = <<>> /\ pcCalc = "idle"

\* no concurrent invocations are modelled
PoolIdle == calls = <<>> /\ pool = <<>>

-----------------------------------------------------------------------------
(* The storage engine: PostgreSQL, one users table                          *)
(* (name VARCHAR NOT NULL, age INT NOT NULL, address JSONB, additional_info *)
(* JSONB), reached through one pooled session per UserService call.         *)
(* Inside a transaction block a statement that fails puts the block in the  *)
(* aborted state: every later statement of the block is rejected, and       *)
(* COMMIT then ends the block as a rollback and reports no error.           *)
(* log counts the statements issued and keeps the inserts the engine        *)
(* rejected (row numbers, or chunk numbers on the bulk path) and the other  *)
(* statements it failed; chunk is the first and the last user (1-based) of  *)
(* the latest chunk insert.                                                 *)

\* the row the engine cannot store: its age is outside the INT column
PgRejects(u) == u.age.t = "big"

OutOfRange == "integer out of range"
TxAborted == "current transaction is aborted"
ConnectionError == "connection error"

\* the engine with no transaction open and nothing stored by this request
DbInit == [tx |-> "none", pending |-> 0, committed |-> 0]

\* the transaction block ends without storing its rows
Discard(d) == [d EXCEPT !.tx = "none", !.pending = 0]

\* COMMIT accepted: an open block stores its rows, an aborted one is rolled back
EndBlock(d) ==
    [tx |-> "none", pending |-> 0,
     committed |-> IF d.tx = "open" THEN d.committed + d.pending ELSE d.committed]

LogInit ==
    [BEGIN |-> 0, INSERT |-> 0, COMMIT |-> 0, ROLLBACK |-> 0, SELECT |-> 0,
     rejected |-> <<>>, failed |-> <<>>, chunk |-> <<0, 0>>]

-----------------------------------------------------------------------------
(* POST /api/upload/process and the UserService calls it makes.  One action *)
(* is one await of the handler with the synchronous code up to the next.    *)

\* the volume threshold of the handler and the chunk size of the bulk service
BulkThreshold == 5000
chunkSize == 1000

\* processedUsers.length >= 5000 instead of > 5000
UsesBulkFromThreshold(n) == n >= BulkThreshold

\* processedUsers.length > 5000
UsesBulk(n) == n > BulkThreshold

Arr(xs) == [t |-> "arr", v |-> xs]

NoResponse == [status |-> 0]
Failure(msg) == [status |-> 500, success |-> FALSE, error |-> msg]
Success(total, res) ==
    [status |-> 200, success |-> TRUE,
     statistics |-> [totalRecords |-> total, inserted |-> res.inserted,
                     failed |-> res.failed],
     errors |-> res.errors]

\* AgeDistribution.calculate returns no counts for an empty table, and
\* printReport then reads distribution.counts[group] of undefined
ReportThrows(rows) == rows = 0

\* the handler is not running
PipeIdle ==
    /\ csvContent = <<>> /\ rowsBefore = 0 /\ pc = "idle" /\ totalRecords = 0
    /\ processedUsers = <<>> /\ service = "none" /\ client = "none" /\ next = 1
    /\ insertedCount = 0 /\ failedCount = 0 /\ errors = <<>> /\ totalInserted = 0
    /\ db = DbInit /\ log = LogInit /\ insertResult = NotReturned
    /\ response = NoResponse

\* the tokenizer, the assembler and the builder are not running on their own
ParseIdle ==
    /\ fields = <<>> /\ line = <<>> /\ scan = ScanInit /\ parsed = <<>>
    /\ pcParse = "idle"
CsvIdle == csvText = <<>> /\ csvReturn = NotReturned /\ pcCsv = "idle"
BuildIdle ==
    /\ flat = <<>> /\ result = <<>> /\ entryNo = 1 /\ user = NoUser
    /\ pcBuild = "idle"

otherVars == <<parseVars, csvVars, buildVars, reportVars, poolVars>>

\* fs.readFile fails: parseCSV rejects and the handler answers 500
ReadFails ==
    /\ pc = "start"
    /\ response' = Failure(<<"Failed to read file: ", "ENOENT">>)
    /\ pc' = "done"
    /\ UNCHANGED <<csvContent, rowsBefore, totalRecords, processedUsers, service,
                   client, next, insertedCount, failedCount, errors,
                   totalInserted, db, log, insertResult>>
    /\ UNCHANGED otherVars

\* the file is read, parsed and transformed, and the path is chosen
ParseAndTransform ==
    /\ pc = "start"
    /\ LET got == parseCSVContent(csvContent)
       IN  IF got.threw
           THEN /\ response' = Failure(<<got.message>>)
                /\ pc' = "done"
                /\ UNCHANGED <<totalRecords, processedUsers, service>>
           ELSE /\ totalRecords' = Len(got.value)
                /\ processedUsers' = processRecords(got.value)
                /\ service' = IF UsesBulk(Len(got.value)) THEN "bulk" ELSE "row"
                /\ pc' = "connect"
                /\ UNCHANGED response
    /\ UNCHANGED <<csvContent, rowsBefore, client, next, insertedCount,
                   failedCount, errors, totalInserted, db, log, insertResult>>
    /\ UNCHANGED otherVars

\* const client = await pool.connect(), outside the try block
Connect ==
    /\ pc = "connect"
    /\ \E ok \in BOOLEAN :
          IF ok
          THEN /\ client' = "held"
               /\ pc' = "begin"
               /\ UNCHANGED <<insertResult, response>>
          ELSE /\ insertResult' = Threw(<<ConnectionError>>)
               /\ response' = Failure(<<ConnectionError>>)
               /\ pc' = "done"
               /\ UNCHANGED client
    /\ UNCHANGED <<csvContent, rowsBefore, totalRecords, processedUsers, service,
                   next, insertedCount, failedCount, errors, totalInserted,
                   db, log>>
    /\ UNCHANGED otherVars

\* await client.query('BEGIN')
Begin ==
    /\ pc = "begin"
    /\ \E ok \in BOOLEAN :
          IF ok
          THEN /\ db' = [db EXCEPT !.tx = "open"]
               /\ log' = [log EXCEPT !.BEGIN = @ + 1]
               /\ pc' = "loop"
               /\ UNCHANGED insertResult
          ELSE /\ insertResult' = [NotReturned EXCEPT !.value = <<ConnectionError>>]
               /\ log' = [log EXCEPT !.BEGIN = @ + 1, !.failed = Append(@, "BEGIN")]
               /\ pc' = "rollback"
               /\ UNCHANGED db
    /\ UNCHANGED <<csvContent, rowsBefore, totalRecords, processedUsers, service,
                   client, next, insertedCount, failedCount, errors,
                   totalInserted, response>>
    /\ UNCHANGED otherVars

\* batchInsertUsers: one iteration of the for-of loop, its try and its catch
InsertRow ==
    /\ pc = "loop"
    /\ service = "row"
    /\ next <= Len(processedUsers)
    /\ LET u == processedUsers[next]
           rejected == db.tx = "aborted" \/ PgRejects(u)
           message == IF db.tx = "aborted" THEN TxAborted ELSE OutOfRange
       IN  IF rejected
           THEN /\ failedCount' = failedCount + 1
                /\ errors' = Append(errors, [user |-> u.name, error |-> message])
                /\ db' = [db EXCEPT !.tx = "aborted"]
                /\ log' = [log EXCEPT !.INSERT = @ + 1, !.rejected = Append(@, next)]
                /\ UNCHANGED insertedCount
           ELSE /\ insertedCount' = insertedCount + 1
                /\ db' = [db EXCEPT !.pending = @ + 1]
                /\ log' = [log EXCEPT !.INSERT = @ + 1]
                /\ UNCHANGED <<failedCount, errors>>
    /\ next' = next + 1
    /\ UNCHANGED <<csvContent, rowsBefore, pc, totalRecords, processedUsers,
                   service, client, totalInserted, insertResult, response>>
    /\ UNCHANGED otherVars

\* InsertChunk with a try/catch of its own around the chunk insert, as the
\* row path has: a rejected chunk is skipped and the loop goes on
InsertChunkTolerant ==
    /\ pc = "loop"
    /\ service = "bulk"
    /\ next <= Len(processedUsers)
    /\ LET last == IF next + chunkSize - 1 < Len(processedUsers)
                   THEN next + chunkSize - 1 ELSE Len(processedUsers)
           rejected == \E k \in next..last : PgRejects(processedUsers[k])
       IN  IF rejected
           THEN /\ db' = db
                /\ log' = [log EXCEPT !.INSERT = @ + 1, !.chunk = <<next, last>>,
                                      !.rejected = Append(@, (next - 1) \div chunkSize + 1)]
                /\ UNCHANGED totalInserted
           ELSE /\ totalInserted' = totalInserted + (last - next + 1)
                /\ db' = [db EXCEPT !.pending = @ + (last - next + 1)]
                /\ log' = [log EXCEPT !.INSERT = @ + 1, !.chunk = <<next, last>>]
    /\ next' = next + chunkSize
    /\ UNCHANGED <<csvContent, rowsBefore, pc, totalRecords, processedUsers, service,
                   client, insertedCount, failedCount, errors, response, insertResult>>
    /\ UNCHANGED otherVars

\* InsertChunk with users.slice(i, i + chunkSize + 1): every chunk but the
\* last also takes the first user of the next one
InsertChunkOverlapping ==
    /\ pc = "loop"
    /\ service = "bulk"
    /\ next <= Len(processedUsers)
    /\ LET last == IF next + chunkSize < Len(processedUsers)
                   THEN next + chunkSize ELSE Len(processedUsers)
           rejected == \E k \in next..last : PgRejects(processedUsers[k])
       IN  IF rejected
           THEN /\ db' = [db EXCEPT !.tx = "aborted"]
                /\ log' = [log EXCEPT !.INSERT = @ + 1, !.chunk = <<next, last>>,
                                      !.rejected = Append(@, (next - 1) \div chunkSize + 1)]
                /\ insertResult' = [NotReturned EXCEPT !.value = <<OutOfRange>>]
                /\ pc' = "rollback"
                /\ UNCHANGED <<totalInserted, next>>
           ELSE /\ totalInserted' = totalInserted + (last - next + 1)
                /\ db' = [db EXCEPT !.pending = @ + (last - next + 1)]
                /\ log' = [log EXCEPT !.INSERT = @ + 1, !.chunk = <<next, last>>]
                /\ next' = next + chunkSize
                /\ UNCHANGED <<insertResult, pc>>
    /\ UNCHANGED <<csvContent, rowsBefore, totalRecords, processedUsers, service,
                   client, insertedCount, failedCount, errors, response>>
    /\ UNCHANGED otherVars

\* optimizedBatchInsert: one iteration of the chunk loop; the engine stores
\* the whole chunk or, when it rejects one of its rows, none of it
InsertChunk ==
    /\ pc = "loop"
    /\ service = "bulk"
    /\ next <= Len(processedUsers)
    /\ LET last == IF next + chunkSize - 1 < Len(processedUsers)
                   THEN next + chunkSize - 1 ELSE Len(processedUsers)
           rejected == \E k \in next..last : PgRejects(processedUsers[k])
       IN  IF rejected
           THEN /\ db' = [db EXCEPT !.tx = "aborted"]
                /\ log' = [log EXCEPT !.INSERT = @ + 1, !.chunk = <<next, last>>,
                                      !.rejected = Append(@, (next - 1) \div chunkSize + 1)]
                /\ insertResult' = [NotReturned EXCEPT !.value = <<OutOfRange>>]
                /\ pc' = "rollback"
                /\ UNCHANGED <<totalInserted, next>>
           ELSE /\ totalInserted' = totalInserted + (last - next + 1)
                /\ db' = [db EXCEPT !.pending = @ + (last - next + 1)]
                /\ log' = [log EXCEPT !.INSERT = @ + 1, !.chunk = <<next, last>>]
                /\ next' = next + chunkSize
                /\ UNCHANGED <<insertResult, pc>>
    /\ UNCHANGED <<csvContent, rowsBefore, totalRecords, processedUsers, service,
                   client, insertedCount, failedCount, errors, response>>
    /\ UNCHANGED otherVars

\* the statistics either service returns after COMMIT
RowResult ==
    [success |-> TRUE, inserted |-> insertedCount, failed |-> failedCount,
     errors |-> IF Len(errors) > 0 THEN Arr(errors) ELSE Null]
BulkResult ==
    [success |-> TRUE, inserted |-> totalInserted, failed |-> 0, errors |-> Null]

\* await client.query('COMMIT') after the loop; on success the return and
\* the finally block's client.release()
Commit ==
    /\ pc = "loop"
    /\ next > Len(processedUsers)
    /\ \E ok \in BOOLEAN :
          IF ok
          THEN /\ db' = EndBlock(db)
               /\ log' = [log EXCEPT !.COMMIT = @ + 1]
               /\ insertResult' = Returned(IF service = "row" THEN RowResult ELSE BulkResult)
               /\ client' = "released"
               /\ pc' = "report"
          ELSE /\ db' = Discard(db)
               /\ log' = [log EXCEPT !.COMMIT = @ + 1, !.failed = Append(@, "COMMIT")]
               /\ insertResult' = [NotReturned EXCEPT !.value = <<ConnectionError>>]
               /\ pc' = "rollback"
               /\ UNCHANGED client
    /\ UNCHANGED <<csvContent, rowsBefore, totalRecords, processedUsers, service,
                   next, insertedCount, failedCount, errors, totalInserted,
                   response>>
    /\ UNCHANGED otherVars

\* Rollback with a catch block that rethrows without issuing ROLLBACK
RollbackNotIssued ==
    /\ pc = "rollback"
    /\ insertResult' = Threw(<<"Batch insert failed: ">> \o insertResult.value)
    /\ response' = Failure(<<"Batch insert failed: ">> \o insertResult.value)
    /\ client' = "released"
    /\ pc' = "done"
    /\ UNCHANGED <<csvContent, rowsBefore, totalRecords, processedUsers, service,
                   next, insertedCount, failedCount, errors, totalInserted, db, log>>
    /\ UNCHANGED otherVars

\* the catch block: await client.query('ROLLBACK'), the throw, the finally
\* block's client.release(), and the handler's catch answering 500
Rollback ==
    /\ pc = "rollback"
    /\ \E ok \in BOOLEAN :
          LET prefix == IF service = "row" THEN "Batch insert failed: "
                        ELSE "Optimized batch insert failed: "
              thrown == IF ok THEN <<prefix>> \o insertResult.value
                        ELSE <<ConnectionError>>
          IN  /\ db' = IF ok THEN Discard(db) ELSE db
              /\ log' = [log EXCEPT !.ROLLBACK = @ + 1,
                                    !.failed = IF ok THEN @ ELSE Append(@, "ROLLBACK")]
              /\ insertResult' = Threw(thrown)
              /\ response' = Failure(thrown)
    /\ client' = "released"
    /\ pc' = "done"
    /\ UNCHANGED <<csvContent, rowsBefore, totalRecords, processedUsers, service,
                   next, insertedCount, failedCount, errors, totalInserted>>
    /\ UNCHANGED otherVars

\* await AgeDistribution.getDistributionFromDB(pool), printReport, and the
\* response
Report ==
    /\ pc = "report"
    /\ \E ok \in BOOLEAN :
          /\ log' = [log EXCEPT !.SELECT = @ + 1,
                                !.failed = IF ok THEN @ ELSE Append(@, "SELECT")]
          /\ response' =
                IF ~ok
                THEN Failure(<<"Failed to get age distribution: ", ConnectionError>>)
                ELSE IF ReportThrows(rowsBefore + db.committed)
                THEN Failure(<<"Cannot read properties of undefined">>)
                ELSE Success(totalRecords, insertResult.value)
    /\ pc' = "done"
    /\ UNCHANGED <<csvContent, rowsBefore, totalRecords, processedUsers, service,
                   client, next, insertedCount, failedCount, errors,
                   totalInserted, db, insertResult>>
    /\ UNCHANGED otherVars

-----------------------------------------------------------------------------
(* Spec: one run of POST /process on every file of PipelineInputs, against  *)
(* an empty or a non-empty users table.  A file is the header               *)
(* name.firstName,age and data rows; a good row's age fits the INT column,  *)
(* a bad row's age does not, a short row has one field only.                *)

Header == <<"name", ".", "firstName", ",", "age">>

\* the first names of the rows of a small file, by row number
RowNames == <<"Ann", "Bob", "Cy", "Di", "Ed">>
NameOf(n) == IF n <= Len(RowNames) THEN RowNames[n] ELSE "Jo"

RowKinds == {"good", "bad", "short"}
RowText(kind, n) ==
    CASE kind = "good" -> <<"\n", NameOf(n), ",", "3", "0">>
      [] kind = "bad" -> <<"\n", NameOf(n), ",", "9", "9", "9", "9", "9", "9", "9", "9", "9", "9">>
      [] kind = "short" -> <<"\n", NameOf(n)>>

\* the data rows lo..hi, every one good but the row number badAt
RECURSIVE RowsText(_, _, _)
RowsText(lo, hi, badAt) ==
    IF lo > hi THEN <<>>
    ELSE IF lo = hi THEN RowText(IF lo = badAt THEN "bad" ELSE "good", lo)
    ELSE LET mid == (lo + hi) \div 2
         IN  RowsText(lo, mid, badAt) \o RowsText(mid + 1, hi, badAt)

\* the data rows of the given kinds
RECURSIVE KindsText(_, _)
KindsText(kinds, n) ==
    IF n > Len(kinds) THEN <<>>
    ELSE RowText(kinds[n], n) \o KindsText(kinds, n + 1)

\* the empty file, a file of one line break, and the header with up to
\* MaxRows rows of every kind
SmallInputs ==
    {<<>>, <<"\n">>} \cup {Header \o KindsText(kinds, 1) : kinds \in SeqsUpTo(RowKinds, MaxRows)}

\* files at and just above the volume threshold; above it, with no bad row
\* (0) or the bad row in the first, a middle or the last chunk; and a file
\* of six full chunks
LargeInputs ==
    {Header \o RowsText(1, BulkThreshold, 0),
     Header \o RowsText(1, BulkThreshold + chunkSize, 0)}
        \cup {Header \o RowsText(1, BulkThreshold + 1, badAt) :
                 badAt \in {0, 1, BulkThreshold \div 2, BulkThreshold + 1}}

PipelineInputs == SmallInputs \cup LargeInputs

Init ==
    /\ csvContent \in PipelineInputs
    /\ rowsBefore \in {0, 1}
    /\ pc = "start"
    /\ totalRecords = 0
    /\ processedUsers = <<>>
    /\ service = "none"
    /\ client = "none"
    /\ next = 1
    /\ insertedCount = 0
    /\ failedCount = 0
    /\ errors = <<>>
    /\ totalInserted = 0
    /\ db = DbInit
    /\ log = LogInit
    /\ insertResult = NotReturned
    /\ response = NoResponse
    /\ ParseIdle
    /\ CsvIdle
    /\ BuildIdle
    /\ ReportIdle
    /\ PoolIdle

Next ==
    \/ ReadFails
    \/ ParseAndTransform
    \/ Connect
    \/ Begin
    \/ InsertRow
    \/ InsertChunk
    \/ Commit
    \/ Rollback
    \/ Report

Spec == Init /\ [][Next]_vars

-----------------------------------------------------------------------------
(* SpecParse: parseLine applied, one loop iteration per step, to the        *)
(* comma-joined line of every bounded sequence of fields.                   *)

FieldAlphabet == {"a", " ", ",", "\""}

\* the line of spec section 8: "a,""b"""
QuotedExample == <<"\"", "a", ",", "\"", "\"", "b", "\"", "\"", "\"">>

FieldInputs ==
    SeqsUpTo(SeqsUpTo(FieldAlphabet, MaxFieldLen), MaxFields) \cup {<<QuotedExample>>}

ParseInit ==
    /\ fields \in FieldInputs
    /\ line = JoinComma(fields)
    /\ scan = ScanInit
    /\ parsed = <<>>
    /\ pcParse = "scan"
    /\ CsvIdle
    /\ BuildIdle
    /\ PipeIdle
    /\ ReportIdle
    /\ PoolIdle

ScanChar ==
    /\ pcParse = "scan"
    /\ scan.i <= Len(line)
    /\ scan' = ParseLineStep(line, scan)
    /\ UNCHANGED <<fields, line, parsed, pcParse>>
    /\ UNCHANGED <<csvVars, buildVars, pipeVars, reportVars, poolVars>>

ScanReturn ==
    /\ pcParse = "scan"
    /\ scan.i > Len(line)
    /\ parsed' = ScanResult(scan)
    /\ pcParse' = "done"
    /\ UNCHANGED <<fields, line, scan>>
    /\ UNCHANGED <<csvVars, buildVars, pipeVars, reportVars, poolVars>>

ParseNext == ScanChar \/ ScanReturn

SpecParse == ParseInit /\ [][ParseNext]_vars

-----------------------------------------------------------------------------
(* SpecCsv: parseCSVContent applied to every bounded file content. *)

CsvAlphabet == {"a", ",", " ", "\"", "\n"}

\* contents with the other line endings and a three-column header
CsvExamples ==
    { <<"a", ",", "b", "\r", "\n", "1", ",", "2", "\r", "3", "\n", "\r", "\n", "4", ",", "5">>,
      <<"a", ",", "b", ",", "c", "\n", "1", ",", "2", "\n", "1", ",", "2", ",", "3">> }

CsvInputs == SeqsUpTo(CsvAlphabet, MaxCsvLen) \cup CsvExamples

CsvInit ==
    /\ csvText \in CsvInputs
    /\ csvReturn = NotReturned
    /\ pcCsv = "call"
    /\ ParseIdle
    /\ BuildIdle
    /\ PipeIdle
    /\ ReportIdle
    /\ PoolIdle

ParseContent ==
    /\ pcCsv = "call"
    /\ csvReturn' = parseCSVContent(csvText)
    /\ pcCsv' = "done"
    /\ UNCHANGED csvText
    /\ UNCHANGED <<parseVars, buildVars, pipeVars, reportVars, poolVars>>

CsvNext == ParseContent

SpecCsv == CsvInit /\ [][CsvNext]_vars

-----------------------------------------------------------------------------
(* SpecBuild: buildNestedObject, one flat key per step, and then            *)
(* separateMandatoryFields, applied to every bounded flat record.           *)

FlatKeys ==
    { <<"name", ".", "firstName">>, <<"name", ".", "lastName">>, <<"name">>,
      <<"age">>, <<"address">>, <<"address", ".", "city">>,
      <<"email">>, <<"info", ".", "tag">> }

FlatValues == { <<>>, <<"John">>, <<"Doe">>, <<"2", "5">> }

\* the flat records of at most n properties
RECURSIVE FlatRecords(_)
FlatRecords(n) ==
    IF n = 0 THEN {<<>>}
    ELSE LET shorter == FlatRecords(n - 1)
         IN  shorter \cup
             {Append(es, [k |-> key, v |-> Str(val)]) :
                 es \in {e \in shorter : Len(e) = n - 1},
                 key \in FlatKeys, val \in FlatValues}

DistinctKeys(es) == \A a, b \in 1..Len(es) : es[a].k = es[b].k => a = b

\* the flat record of spec section 8
JohnDoe ==
    << [k |-> <<"name", ".", "firstName">>, v |-> Str(<<"John">>)],
       [k |-> <<"name", ".", "lastName">>, v |-> Str(<<"Doe">>)],
       [k |-> <<"age">>, v |-> Str(<<"2", "5">>)],
       [k |-> <<"address", ".", "city">>, v |-> Str(<<"NYC">>)] >>

\* a record with every kind of column, an age that has no digits and a
\* first name only
Everything ==
    << [k |-> <<"email">>, v |-> Str(<<"j@x">>)],
       [k |-> <<"name", ".", "firstName">>, v |-> Str(<<"John">>)],
       [k |-> <<"age">>, v |-> Str(<<"abc">>)],
       [k |-> <<"address", ".", "city">>, v |-> Str(<<"NYC">>)],
       [k |-> <<"address", ".", "zip">>, v |-> Str(<<"1", "0">>)],
       [k |-> <<"info", ".", "tag">>, v |-> Str(<<"vip">>)] >>

\* a record whose keys disagree twice about name: a mapping, then a leaf,
\* then a mapping again
Conflicting ==
    << [k |-> <<"name", ".", "firstName">>, v |-> Str(<<"John">>)],
       [k |-> <<"name">>, v |-> Str(<<"Doe">>)],
       [k |-> <<"name", ".", "lastName">>, v |-> Str(<<"Smith">>)] >>

FlatInputs ==
    {es \in FlatRecords(MaxFlatKeys) : DistinctKeys(es)}
        \cup {JohnDoe, Everything, Conflicting}

BuildInit ==
    /\ flat \in {Obj(es) : es \in FlatInputs}
    /\ result = <<>>
    /\ entryNo = 1
    /\ user = NoUser
    /\ pcBuild = "build"
    /\ ParseIdle
    /\ CsvIdle
    /\ PipeIdle
    /\ ReportIdle
    /\ PoolIdle

\* one iteration of buildNestedObject's for-of loop
BuildKey ==
    /\ pcBuild = "build"
    /\ entryNo <= Len(flat.v)
    /\ result' = setNestedProperty(result, flat.v[entryNo].k, flat.v[entryNo].v)
    /\ entryNo' = entryNo + 1
    /\ UNCHANGED <<flat, user, pcBuild>>
    /\ UNCHANGED <<parseVars, csvVars, pipeVars, reportVars, poolVars>>

\* buildNestedObject returns
BuildReturn ==
    /\ pcBuild = "build"
    /\ entryNo > Len(flat.v)
    /\ pcBuild' = "separate"
    /\ UNCHANGED <<flat, result, entryNo, user>>
    /\ UNCHANGED <<parseVars, csvVars, pipeVars, reportVars, poolVars>>

Separate ==
    /\ pcBuild = "separate"
    /\ user' = separateMandatoryFields(Obj(result))
    /\ pcBuild' = "done"
    /\ UNCHANGED <<flat, result, entryNo>>
    /\ UNCHANGED <<parseVars, csvVars, pipeVars, reportVars, poolVars>>

BuildNext == BuildKey \/ BuildReturn \/ Separate

SpecBuild == BuildInit /\ [][BuildNext]_vars

-----------------------------------------------------------------------------
(* SpecReport: AgeDistribution.calculate on its own. *)

\* a row of SELECT age FROM users
Row(age) == [age |-> age]

\* the ages at the group boundaries
BoundaryAges == <<19, 20, 39, 40, 60, 61>>
BoundaryUsers == [k \in 1..Len(BoundaryAges) |-> Row(Num(BoundaryAges[k]))]

\* age values parseInt has no number for, and one it reads from text
Unparseable == {Null, Undef, Str(<<"abc">>)}
AgeValues ==
    {Num(BoundaryAges[k]) : k \in 1..Len(BoundaryAges)}
        \cup Unparseable \cup {Str(<<"2", "5">>)}

\* every sequence of at most MaxUsers users over AgeValues, every age from
\* -1 to MaxAge on its own, and the boundary ages together
ReportInputs ==
    SeqsUpTo({Row(a) : a \in AgeValues}, MaxUsers)
        \cup {<<Row(Num(a))>> : a \in (0 - 1)..MaxAge}
        \cup {BoundaryUsers}

ReportInit ==
    /\ users \in ReportInputs
    /\ distribution = ZeroCounts
    /\ userNo = 1
    /\ calcReturn = <<>>
    /\ pcCalc = "call"
    /\ ParseIdle
    /\ CsvIdle
    /\ BuildIdle
    /\ PipeIdle
    /\ PoolIdle

\* if (total === 0) return { '<20': 0, ... }
CalcEmpty ==
    /\ pcCalc = "call"
    /\ Len(users) = 0
    /\ calcReturn' = ZeroCounts
    /\ pcCalc' = "done"
    /\ UNCHANGED <<users, distribution, userNo>>
    /\ UNCHANGED <<parseVars, csvVars, buildVars, pipeVars, poolVars>>

\* one call of the forEach callback
CalcUser ==
    /\ pcCalc = "call"
    /\ Len(users) # 0
    /\ userNo <= Len(users)
    /\ distribution' = CountUser(distribution, users[userNo])
    /\ userNo' = userNo + 1
    /\ UNCHANGED <<users, calcReturn, pcCalc>>
    /\ UNCHANGED <<parseVars, csvVars, buildVars, pipeVars, poolVars>>

\* the percentages loop and return { counts, percentages, total }
CalcReturn ==
    /\ pcCalc = "call"
    /\ Len(users) # 0
    /\ userNo > Len(users)
    /\ calcReturn' = [counts |-> distribution,
                      percentages |-> Percentages(distribution, Len(users)),
                      total |-> Len(users)]
    /\ pcCalc' = "done"
    /\ UNCHANGED <<users, distribution, userNo>>
    /\ UNCHANGED <<parseVars, csvVars, buildVars, pipeVars, poolVars>>

ReportNext == CalcEmpty \/ CalcUser \/ CalcReturn

SpecReport == ReportInit /\ [][ReportNext]_vars

-----------------------------------------------------------------------------
(* SpecPool: concurrent invocations of the two UserService paths on one     *)
(* pool.  An invocation runs from one await to the next in one step; what   *)
(* the statements do to the rows is left to Spec, here each may fail.       *)

Invocations == 1..MaxCalls
Sessions == 1..MaxSessions
Paths == {"row", "bulk"}

\* pool.connect() resolving with the idle session s
Acquire(idle, s) == idle \ {s}

\* client.release()
Release(idle, s) == idle \cup {s}

\* the locals of an invocation that has not reached pool.connect() yet:
\* client is the session pool.connect() gave (0: none), queries and on the
\* number of statements issued and the session of the last one
CallStart(path) ==
    [path |-> path, pc |-> "connect", client |-> 0, next |-> 1,
     acquired |-> 0, released |-> 0, queries |-> 0, on |-> 0,
     outcome |-> "running"]

\* client.query(...)
Query(c) == [c EXCEPT !.queries = @ + 1, !.on = c.client]

\* finally { client.release() } and the return or throw that follows it
Finally(c, outcome) ==
    [c EXCEPT !.released = @ + 1, !.pc = "done", !.outcome = outcome]

PoolInit ==
    /\ calls \in [Invocations -> {CallStart(path) : path \in Paths}]
    /\ pool = Sessions
    /\ ParseIdle
    /\ CsvIdle
    /\ BuildIdle
    /\ PipeIdle
    /\ ReportIdle

\* const client = await pool.connect(): rejects, or resolves with an idle
\* session (and waits while there is none)
CallConnect(p) ==
    /\ calls[p].pc = "connect"
    /\ \/ /\ calls' = [calls EXCEPT ![p].pc = "done", ![p].outcome = "threw"]
          /\ UNCHANGED pool
       \/ \E s \in pool :
            /\ pool' = Acquire(pool, s)
            /\ calls' = [calls EXCEPT ![p].client = s, ![p].acquired = @ + 1,
                                      ![p].pc = "begin"]
    /\ UNCHANGED <<parseVars, csvVars, buildVars, pipeVars, reportVars>>

\* await client.query('BEGIN')
CallBegin(p) ==
    /\ calls[p].pc = "begin"
    /\ \E ok \in BOOLEAN :
          calls' = [calls EXCEPT
                       ![p] = [Query(@) EXCEPT !.pc = IF ok THEN "loop" ELSE "rollback"]]
    /\ UNCHANGED pool
    /\ UNCHANGED <<parseVars, csvVars, buildVars, pipeVars, reportVars>>

\* one insert of the loop: a row (its error is caught and the loop goes on)
\* or a chunk (its error leaves the loop)
CallInsert(p) ==
    /\ calls[p].pc = "loop"
    /\ calls[p].next <= MaxItems
    /\ \E ok \in BOOLEAN :
          calls' = [calls EXCEPT
                       ![p] = IF ok \/ @.path = "row"
                              THEN [Query(@) EXCEPT !.next = @ + 1]
                              ELSE [Query(@) EXCEPT !.pc = "rollback"]]
    /\ UNCHANGED pool
    /\ UNCHANGED <<parseVars, csvVars, buildVars, pipeVars, reportVars>>

\* await client.query('COMMIT'); return {...}; finally client.release()
CallCommit(p) ==
    /\ calls[p].pc = "loop"
    /\ calls[p].next > MaxItems
    /\ \E ok \in BOOLEAN :
          IF ok
          THEN /\ calls' = [calls EXCEPT ![p] = Finally(Query(@), "returned")]
               /\ pool' = Release(pool, calls[p].client)
          ELSE /\ calls' = [calls EXCEPT ![p] = [Query(@) EXCEPT !.pc = "rollback"]]
               /\ UNCHANGED pool
    /\ UNCHANGED <<parseVars, csvVars, buildVars, pipeVars, reportVars>>

\* the catch block with client.release() after the try statement instead of
\* in finally: an error of ROLLBACK skips the release
CallRollbackNoFinally(p) ==
    /\ calls[p].pc = "rollback"
    /\ \E ok \in BOOLEAN :
          IF ok
          THEN /\ calls' = [calls EXCEPT ![p] = Finally(Query(@), "threw")]
               /\ pool' = Release(pool, calls[p].client)
          ELSE /\ calls' = [calls EXCEPT ![p] = [Query(@) EXCEPT !.pc = "done",
                                                   !.outcome = "rollback threw"]]
               /\ UNCHANGED pool
    /\ UNCHANGED <<parseVars, csvVars, buildVars, pipeVars, reportVars>>

\* catch: await client.query('ROLLBACK'); throw new Error(...); finally
\* client.release(): the release runs whether ROLLBACK resolved or rejected
CallRollback(p) ==
    /\ calls[p].pc = "rollback"
    /\ \E ok \in BOOLEAN :
          calls' = [calls EXCEPT
                       ![p] = Finally(Query(@), IF ok THEN "threw" ELSE "rollback threw")]
    /\ pool' = Release(pool, calls[p].client)
    /\ UNCHANGED <<parseVars, csvVars, buildVars, pipeVars, reportVars>>

PoolNext ==
    \E p \in Invocations :
        \/ CallConnect(p)
        \/ CallBegin(p)
        \/ CallInsert(p)
        \/ CallCommit(p)
        \/ CallRollback(p)

SpecPool == PoolInit /\ [][PoolNext]_vars

-----------------------------------------------------------------------------
(* Claims about parseLine, checked under SpecParse. *)

\* no field holds a comma or a double quote
NoDelimiters(fs) ==
    \A k \in 1..Len(fs) : \A m \in 1..Len(fs[k]) : fs[k][m] \notin {",", "\""}

\* C7 as stated: for every sequence of fields without comma or double quote,
\* parseLine of the comma-joined line returns exactly the original fields.
C7_RoundTripEverySequence ==
    (pcParse = "done" /\ NoDelimiters(fields)) => parsed = fields

\* C7 amended: for every non-empty sequence of fields without comma or double
\* quote, parseLine of the comma-joined line returns exactly the original
\* fields (same number, same contents, untrimmed, same order).
C7_RoundTripNonEmpty ==
    (pcParse = "done" /\ Len(fields) >= 1 /\ NoDelimiters(fields)) => parsed = fields

\* C7 witness: three fields, one a blank, one empty, came back as given.
C7_Witness ==
    /\ pcParse = "done"
    /\ fields = << <<" ">>, <<"a">>, <<>> >>
    /\ parsed = fields

\* the step taken is one iteration of parseLine's loop on the character c
ScansChar(c) == pcParse = "scan" /\ scan.i <= Len(line) /\ line[scan.i] = c /\ scan' # scan

\* the quote under the cursor is the first of a doubled quote inside quotes
AtEscapedQuote ==
    scan.insideQuotes /\ scan.i + 1 <= Len(line) /\ line[scan.i + 1] = "\""

\* C8 (steps): a comma inside quotes is appended and ends no field; a doubled
\* quote inside quotes appends one quote and consumes both characters; every
\* other quote only toggles insideQuotes and appends nothing.
C8_QuoteSteps ==
    /\ (ScansChar(",") /\ scan.insideQuotes) =>
          /\ scan'.values = scan.values
          /\ scan'.currentValue = Append(scan.currentValue, ",")
          /\ scan'.insideQuotes
          /\ scan'.i = scan.i + 1
    /\ (ScansChar("\"") /\ AtEscapedQuote) =>
          /\ scan'.values = scan.values
          /\ scan'.currentValue = Append(scan.currentValue, "\"")
          /\ scan'.insideQuotes
          /\ scan'.i = scan.i + 2
    /\ (ScansChar("\"") /\ ~AtEscapedQuote) =>
          /\ scan'.values = scan.values
          /\ scan'.currentValue = scan.currentValue
          /\ scan'.insideQuotes = ~scan.insideQuotes
          /\ scan'.i = scan.i + 1

\* C8: parseLine's quote handling: the scan starts outside quotes, every step
\* on a comma or a quote acts as C8_QuoteSteps says, and the line "a,""b"""
\* yields the single field a,"b".
C8_QuoteHandling ==
    /\ ~scan.insideQuotes
    /\ [][C8_QuoteSteps]_vars
    /\ []((pcParse = "done" /\ line = QuotedExample) =>
            parsed = << <<"a", ",", "\"", "b", "\"">> >>)

\* C8 witness: the quoted example has been tokenized to one field holding a
\* comma and two literal quotes.
C8_Witness ==
    /\ pcParse = "done"
    /\ line = QuotedExample
    /\ Len(parsed) = 1
    /\ parsed[1] = <<"a", ",", "\"", "b", "\"">>

-----------------------------------------------------------------------------
(* Claims about the record assembler, checked under SpecCsv. *)

\* the data lines of the content (line numbers from 2) that are not empty
\* after trimming and tokenize to exactly as many fields as the header
MatchingLines(lines) ==
    {n \in 2..Len(lines) :
        /\ Trim(lines[n]) # <<>>
        /\ Len(parseLine(lines[n])) = Len(parseLine(lines[1]))}

\* the record is the line's: each header name, trimmed, carries the trimmed
\* value of the last column of that name, and the record has no other key
RecordOfLine(record, headers, values) ==
    /\ record.t = "obj"
    /\ {record.v[k].k : k \in 1..Len(record.v)} = {Trim(headers[j]) : j \in 1..Len(headers)}
    /\ \A j \in 1..Len(headers) :
          (\A m \in (j + 1)..Len(headers) : Trim(headers[m]) # Trim(headers[j]))
              => Get(record.v, Trim(headers[j])) = Str(Trim(values[j]))

\* C9: parseCSVContent never fails on a skipped line, returns one record per
\* non-empty data line with as many fields as the header and none for any
\* other line, and the records are those lines' records in input order.
C9_FieldCountFiltering ==
    pcCsv = "done" =>
        LET lines == splitIntoLines(csvText)
            match == MatchingLines(lines)
            records == csvReturn.value
        IN  /\ ~csvReturn.threw
            /\ Len(records) = Cardinality(match)
            /\ \A n \in match :
                  LET k == Cardinality({m \in match : m <= n})
                  IN  RecordOfLine(records[k], parseLine(lines[1]),
                                   parseLine(Trim(lines[n])))

\* C9 witness: header a,b,c; the two-field row was skipped and the
\* three-field row after it is the only record.
C9_Witness ==
    /\ pcCsv = "done"
    /\ csvText = <<"a", ",", "b", ",", "c", "\n", "1", ",", "2", "\n", "1", ",", "2", ",", "3">>
    /\ Len(csvReturn.value) = 1
    /\ Get(csvReturn.value[1].v, <<"c">>) = Str(<<"3">>)

-----------------------------------------------------------------------------
(* Claims about the builder and the separator, checked under SpecBuild. *)

\* a value that is absent: no such property, or an empty cell
Absent(value) == value.t = "undefined" \/ (value.t = "str" /\ value.v = <<>>)

\* the text of a name part: empty when the part is missing
PartText(value) == IF value.t = "str" THEN value.v ELSE <<>>

\* the age the claim gives a field: its integer parse, 0 when it has none
AgeOf(value) ==
    IF value.t = "str" /\ parseInt(value).t # "nan" THEN parseInt(value) ELSE Num(0)

\* the user is the nested record's: name from name.firstName and
\* name.lastName, age parsed, the address subtree, the other top-level keys
UserOfNested(u, nested) ==
    LET name == Get(nested, <<"name">>)
        first == IF name.t = "obj" THEN PartText(Get(name.v, <<"firstName">>)) ELSE <<>>
        last == IF name.t = "obj" THEN PartText(Get(name.v, <<"lastName">>)) ELSE <<>>
        others == {k \in 1..Len(nested) : nested[k].k \notin MandatoryKeys}
    IN  /\ u.name = Trim(first \o <<" ">> \o last)
        /\ u.age = AgeOf(Get(nested, <<"age">>))
        /\ u.address = IF Absent(Get(nested, <<"address">>)) THEN Null
                       ELSE Get(nested, <<"address">>)
        /\ IF others = {} THEN u.additional_info = Null
           ELSE /\ u.additional_info.t = "obj"
                /\ {e.k : e \in {u.additional_info.v[k] : k \in 1..Len(u.additional_info.v)}}
                       = {nested[k].k : k \in others}
                /\ \A k \in others :
                      Get(u.additional_info.v, nested[k].k) = nested[k].v

\* no flat key is both a leaf and the first segment of a dotted key
Grouped(es) ==
    \A a, b \in 1..Len(es) :
        (a # b /\ SplitDot(es[a].k)[1] = SplitDot(es[b].k)[1])
            => (Len(SplitDot(es[a].k)) = 2 /\ Len(SplitDot(es[b].k)) = 2)

\* the properties top.x of the flat record, as the mapping {x: value}
SubtreeOf(es, top) ==
    LET Under(e) == Len(SplitDot(e.k)) = 2 /\ SplitDot(e.k)[1] = top
        under == SelectSeq(es, Under)
    IN  [k \in 1..Len(under) |-> [k |-> SplitDot(under[k].k)[2], v |-> under[k].v]]

\* the user is the flat record's, read off its dot-path keys
UserOfFlat(u, es) ==
    LET Text(key) == IF HasKey(es, key) THEN Get(es, key).v ELSE <<>>
        IsExtra(e) == SplitDot(e.k)[1] \notin MandatoryKeys
        extras == SelectSeq(es, IsExtra)
        tops == {SplitDot(extras[k].k)[1] : k \in 1..Len(extras)}
    IN  /\ u.name = Trim(Text(<<"name", ".", "firstName">>) \o <<" ">>
                           \o Text(<<"name", ".", "lastName">>))
        /\ u.age = AgeOf(Str(Text(<<"age">>)))
        /\ u.address =
              IF SubtreeOf(es, <<"address">>) # <<>> THEN Obj(SubtreeOf(es, <<"address">>))
              ELSE IF Text(<<"address">>) # <<>> THEN Str(Text(<<"address">>))
              ELSE Null
        /\ IF tops = {} THEN u.additional_info = Null
           ELSE /\ u.additional_info.t = "obj"
                /\ {u.additional_info.v[k].k : k \in 1..Len(u.additional_info.v)} = tops
                /\ \A top \in tops :
                      Get(u.additional_info.v, top) =
                          IF HasKey(es, top) THEN Get(es, top)
                          ELSE Obj(SubtreeOf(es, top))

\* the PersistableUser spec section 8 gives for JohnDoe
JohnDoeUser ==
    [name |-> <<"John", " ", "Doe">>,
     age |-> Num(25),
     address |-> Obj(<< [k |-> <<"city">>, v |-> Str(<<"NYC">>)] >>),
     additional_info |-> Null]

\* C10: the builder followed by the separator yields name = trim(firstName +
\* " " + lastName) from the name subtree (missing parts empty), age = the
\* integer parse of age or 0, address = the address subtree or null when
\* absent, additional_info = the other top-level keys or null when none;
\* for a record whose sub-keys do not clash these are read off its dot-path
\* keys, and the John Doe record yields the user of the example.
C10_FlatToPersistableUser ==
    pcBuild = "done" =>
        /\ UserOfNested(user, result)
        /\ Grouped(flat.v) => UserOfFlat(user, flat.v)
        /\ flat.v = JohnDoe => user = JohnDoeUser

\* C10 witness: the record with every kind of column was separated: first
\* name only, age without digits, a two-key address, two additional keys.
C10_Witness ==
    /\ pcBuild = "done"
    /\ flat.v = Everything
    /\ user.name = <<"John">>
    /\ user.age = Num(0)
    /\ Len(user.address.v) = 2
    /\ Len(user.additional_info.v) = 2

-----------------------------------------------------------------------------
(* Claims about the persistence paths and the pipeline, checked under Spec. *)

\* the UserService call has returned its statistics
HasReturned == ~insertResult.threw /\ insertResult.message = ""

\* the rows of this request the engine has stored for good
Committed == db.committed

\* C1: on the bulk path, once the engine has rejected the insert of a chunk
\* (the first, a middle or the last one), no COMMIT is issued, the call
\* returns no count, and when it is over ROLLBACK has been issued once, the
\* call has thrown, the request is answered 500 and no row of the call is
\* stored, the rows of the chunks inserted before it included.
C1_BulkAtomicity ==
    (service = "bulk" /\ log.rejected # <<>>) =>
        /\ pc \in {"rollback", "done"}
        /\ log.COMMIT = 0
        /\ ~HasReturned
        /\ Committed = 0
        /\ db.tx # "open"
        /\ pc = "done" =>
              /\ insertResult.threw
              /\ log.ROLLBACK = 1
              /\ response.status = 500
              /\ client = "released"

\* C1 witness: the third of six chunks was rejected after two chunks
\* (2000 rows) had been inserted; the call is over and nothing is stored.
C1_Witness ==
    /\ service = "bulk"
    /\ pc = "done"
    /\ log.rejected = <<3>>
    /\ totalInserted = 2 * chunkSize
    /\ Committed = 0
    /\ insertResult.threw

\* the names of the users at the given row numbers, in that order
NamesAt(rows) == [k \in 1..Len(rows) |-> processedUsers[rows[k]].name]

\* C2: on the row-by-row path with k inserts rejected out of n, the call
\* goes on to COMMIT, and once COMMIT is accepted the call returns
\* inserted = n-k, failed = k and k errors naming the rejected rows in input
\* order, and the n-k accepted rows are stored.
C2_PartialTolerance ==
    (service = "row" /\ HasReturned) =>
        LET n == Len(processedUsers)
            k == Len(log.rejected)
            res == insertResult.value
        IN  /\ res.inserted = n - k
            /\ res.failed = k
            /\ IF k = 0 THEN res.errors = Null
               ELSE /\ res.errors.t = "arr"
                    /\ [j \in 1..Len(res.errors.v) |-> res.errors.v[j].user]
                           = NamesAt(log.rejected)
            /\ Committed = n - k

\* C3: a request ends either answered 500 with no row of it stored, or
\* answered 200 with inserted and failed equal to the numbers of rows
\* stored and rejected.
C3_OutcomeDichotomy ==
    pc = "done" =>
        \/ /\ response.status = 500
           /\ Committed = 0
        \/ /\ response.status = 200
           /\ response.statistics.inserted = Committed
           /\ response.statistics.failed = Len(log.rejected)

\* C4: when the file is empty the request ends in a failure without any
\* session acquired and without any statement issued.
C4_EmptyInputFatal ==
    csvContent = <<>> =>
        /\ pc \in {"start", "done"}
        /\ pc = "done" => response.status = 500
        /\ client = "none"
        /\ log = LogInit
        /\ Committed = 0

\* C5: on the row-by-row path, once BEGIN or COMMIT has failed the call is
\* in its catch block or over; in the catch block nothing is stored and no
\* result is returned; and when the call is over after a failure ROLLBACK
\* has been issued once, the call has thrown instead of returning, the
\* request is answered 500 and no row of the call is stored.
C5_RowPathFatalRollback ==
    service = "row" =>
        /\ (\E j \in 1..Len(log.failed) : log.failed[j] \in {"BEGIN", "COMMIT"}) =>
              pc \in {"rollback", "done"}
        /\ pc = "rollback" => (Committed = 0 /\ ~HasReturned /\ log.ROLLBACK = 0)
        /\ (pc = "done" /\ client = "released" /\ ~HasReturned) =>
              /\ log.ROLLBACK = 1
              /\ insertResult.threw
              /\ response.status = 500
              /\ Committed = 0
              /\ \E j \in 1..Len(log.failed) : log.failed[j] \in {"BEGIN", "COMMIT"}

\* C5 witness: two rows were inserted, COMMIT failed, ROLLBACK was issued
\* and the call threw with nothing stored.
C5_Witness ==
    /\ service = "row"
    /\ pc = "done"
    /\ insertedCount = 2
    /\ log.failed = <<"COMMIT">>
    /\ log.ROLLBACK = 1
    /\ insertResult.threw
    /\ Committed = 0

\* C6: the bulk path runs exactly when there are more than 5000 transformed
\* records and the row-by-row path for every smaller count; once the parse
\* has succeeded exactly one of them runs, and only that one issues inserts.
C6_StrategyByVolume ==
    /\ (pc \notin {"start", "done"} \/ client # "none" \/ log # LogInit) => service # "none"
    /\ service = "bulk" =>
          /\ Len(processedUsers) > 5000
          /\ insertedCount = 0 /\ failedCount = 0 /\ errors = <<>>
          /\ log.INSERT = (next - 1) \div 1000 + Len(log.rejected)
    /\ service = "row" =>
          /\ Len(processedUsers) <= 5000
          /\ totalInserted = 0
          /\ log.INSERT = next - 1

\* C6 witness: with exactly 5000 records the row-by-row path was chosen
\* and has acquired its session; the bulk path has done nothing.
C6_Witness ==
    /\ Len(processedUsers) = BulkThreshold
    /\ service = "row"
    /\ pc = "begin"
    /\ client = "held"
    /\ totalInserted = 0

-----------------------------------------------------------------------------
(* Claims about the reporter, checked under SpecReport. *)

\* the users forEach has taken so far whose age is a number
Parseable == {k \in 1..(userNo - 1) : parseInt(users[k].age).t = "num"}
AgeAt(k) == parseInt(users[k].age).v

\* C11: every integer age is counted in exactly one group: <20 when it is
\* below 20, 20-40 from 20 to 39, 40-60 from 40 to 60 inclusive, >60 above
\* 60; so the ages 19, 20, 39, 40, 60, 61 give the counts 1, 2, 2, 1.
C11_AgeBucketing ==
    /\ distribution["<20"] = Cardinality({k \in Parseable : AgeAt(k) < 20})
    /\ distribution["20-40"] =
           Cardinality({k \in Parseable : 20 <= AgeAt(k) /\ AgeAt(k) < 40})
    /\ distribution["40-60"] =
           Cardinality({k \in Parseable : 40 <= AgeAt(k) /\ AgeAt(k) <= 60})
    /\ distribution[">60"] = Cardinality({k \in Parseable : AgeAt(k) > 60})
    /\ (pcCalc = "done" /\ users = BoundaryUsers) =>
           /\ calcReturn.counts["<20"] = 1
           /\ calcReturn.counts["20-40"] = 2
           /\ calcReturn.counts["40-60"] = 2
           /\ calcReturn.counts[">60"] = 1

\* C11 witness: calculate has returned for the six boundary ages.
C11_Witness ==
    /\ users = BoundaryUsers
    /\ pcCalc = "done"
    /\ calcReturn.counts["40-60"] = 2
    /\ calcReturn.total = 6

\* C12: for every sequence of ages calculate returns counts, percentages
\* and total; total is the number of parseable ages and the sum of the four
\* counts, and each percentage is the count over total.
C12_ReporterTotal ==
    pcCalc = "done" =>
        /\ DOMAIN calcReturn = {"counts", "percentages", "total"}
        /\ calcReturn.total =
               Cardinality({k \in 1..Len(users) : parseInt(users[k].age).t = "num"})
        /\ calcReturn.total =
               calcReturn.counts["<20"] + calcReturn.counts["20-40"]
                   + calcReturn.counts["40-60"] + calcReturn.counts[">60"]
        /\ \A g \in GroupSet :
               calcReturn.percentages[g] = ToFixed2(calcReturn.counts[g], calcReturn.total)

-----------------------------------------------------------------------------
(* Claims about the sessions, checked under SpecPool. *)

\* invocation p holds the session it acquired
Holds(p) == calls[p].acquired > calls[p].released

\* C13 (states): an invocation acquires at most one session, exactly one
\* once pool.connect() has resolved, and releases it at most once; while it
\* runs its statements it holds it; once it has returned or thrown it has
\* released what it acquired; its statements went to its own session; no
\* session is held by two invocations, and none that is held is idle.
C13_SessionStates ==
    /\ \A p \in Invocations :
          /\ calls[p].acquired <= 1
          /\ calls[p].released <= calls[p].acquired
          /\ calls[p].pc \in {"begin", "loop", "rollback"} =>
                (Holds(p) /\ calls[p].client \in Sessions)
          /\ calls[p].pc = "done" => calls[p].released = calls[p].acquired
          /\ calls[p].acquired = 0 => calls[p].queries = 0
          /\ calls[p].queries > 0 => calls[p].on = calls[p].client
          /\ Holds(p) => calls[p].client \notin pool
    /\ \A p, q \in Invocations :
          (p # q /\ Holds(p) /\ Holds(q)) => calls[p].client # calls[q].client

\* C13 (steps): every statement is issued by an invocation that holds its
\* session at that moment, BEGIN first, and a release is of a held session.
C13_SessionSteps ==
    \A p \in Invocations :
        /\ calls'[p].queries # calls[p].queries =>
              (Holds(p) /\ calls'[p].on = calls[p].client)
        /\ calls'[p].released # calls[p].released =>
              (Holds(p) /\ calls'[p].pc = "done" /\ calls[p].client \in pool')

\* C13: session lifecycle of every invocation, alone and among concurrent
\* invocations: one session acquired, used for every statement, released
\* exactly once on every exit path and never used after, never shared.
C13_SessionLifecycle == []C13_SessionStates /\ [][C13_SessionSteps]_vars

\* C13 witness: invocation 1 threw after its ROLLBACK failed and has
\* released its session, and invocation 2, which waited for it, now holds
\* that session and has issued statements on it.
C13_Witness ==
    /\ calls[1].outcome = "rollback threw"
    /\ calls[1].released = 1
    /\ Holds(2)
    /\ calls[2].client = calls[1].client
    /\ calls[2].queries > 0

-----------------------------------------------------------------------------
(* Claims about type conflicts in the builder, checked under SpecBuild. *)

\* the flat entries the for-of loop has processed, and their path segments
Processed == 1..(entryNo - 1)
SegmentsOf(k) == SplitDot(flat.v[k].k)
IsLeafEntry(k) == Len(SegmentsOf(k)) = 1

\* the processed entries whose path starts with the segment top
Under(top) == {k \in Processed : SegmentsOf(k)[1] = top}
Latest(S) == IF S = {} THEN 0 ELSE CHOOSE k \in S : \A m \in S : m <= k

\* C14: after every processed key, what a top segment holds is decided by
\* the latest key under it.  If that key assigns the segment itself, the
\* segment holds that leaf, whatever mapping was there.  If it goes through
\* the segment, the segment holds a mapping with exactly the properties of
\* the keys processed after the latest leaf assignment: that leaf is lost.
\* The loop never stops on a conflict.
C14_LastWriteWins ==
    /\ Len(result) = Cardinality({SegmentsOf(k)[1] : k \in Processed})
    /\ \A j \in Processed :
          LET top == SegmentsOf(j)[1]
              last == Latest(Under(top))
              leaf == Latest({k \in Under(top) : IsLeafEntry(k)})
              kept == {k \in Under(top) : k > leaf}
              held == Get(result, top)
          IN  IF IsLeafEntry(last)
              THEN held.t = "str" /\ held.v = flat.v[last].v.v
              ELSE /\ held.t = "obj"
                   /\ Len(held.v) = Cardinality(kept)
                   /\ \A k \in kept :
                         /\ HasKey(held.v, SegmentsOf(k)[2])
                         /\ Get(held.v, SegmentsOf(k)[2]) = flat.v[k].v
    /\ pcBuild # "build" => entryNo = Len(flat.v) + 1

\* C14 witness: name.firstName, then name, then name.lastName were
\* processed; name first held a mapping, then the leaf Doe, and ends as a
\* mapping with lastName only.
C14_Witness ==
    /\ flat = Obj(Conflicting)
    /\ pcBuild = "separate"
    /\ result = << [k |-> <<"name">>,
                    v |-> Obj(<< [k |-> <<"lastName">>, v |-> Str(<<"Smith">>)] >>)] >>

-----------------------------------------------------------------------------
(* Claims about the chunks of the bulk path, checked under Spec. *)

\* the number of chunks of n users
ChunksOf(n) == (n + 999) \div 1000

\* the smaller of two numbers
Least(a, b) == IF a < b THEN a ELSE b

\* C15: on the bulk path with n users there is one BEGIN and then the chunk
\* inserts one at a time: the j-th insert issued (j = 1, 2, ...) holds the
\* users 1000*(j-1)+1 .. min(1000*j, n) in input order, at most 1000 of them,
\* and follows the success of all the inserts before it; COMMIT is issued
\* at most once and only after the last chunk was inserted; and the result
\* returned is inserted = n, the sum of the chunks' row counts, failed = 0,
\* errors = null.
C15_BulkChunking ==
    service = "bulk" =>
        LET n == Len(processedUsers)
            j == log.INSERT
        IN  /\ log.BEGIN <= 1 /\ log.COMMIT <= 1
            /\ j <= ChunksOf(n)
            /\ j > 0 =>
                  /\ log.BEGIN = 1
                  /\ log.chunk = <<1000 * (j - 1) + 1, Least(1000 * j, n)>>
                  /\ log.chunk[2] - log.chunk[1] + 1 \in 1..1000
                  /\ totalInserted =
                        IF log.rejected = <<>> THEN log.chunk[2] ELSE log.chunk[1] - 1
            /\ Len(log.rejected) <= 1
            /\ log.rejected # <<>> => log.rejected = <<j>>
            /\ log.COMMIT = 1 =>
                  /\ j = ChunksOf(n)
                  /\ log.rejected = <<>>
                  /\ totalInserted = n
            /\ HasReturned =>
                  /\ log.COMMIT = 1
                  /\ insertResult.value.inserted = n
                  /\ insertResult.value.failed = 0
                  /\ insertResult.value.errors = Null

\* C15 witness: 5001 users went in six chunks, the last one holding user
\* 5001 alone, then COMMIT, and the call returned inserted = 5001.
C15_Witness ==
    /\ service = "bulk"
    /\ Len(processedUsers) = BulkThreshold + 1
    /\ log.INSERT = 6
    /\ log.chunk = <<BulkThreshold + 1, BulkThreshold + 1>>
    /\ log.COMMIT = 1
    /\ HasReturned
    /\ insertResult.value.inserted = BulkThreshold + 1

=============================================================================
